---- MODULE Spec2Model ----
(***************************************************************************)
(* Model of the USB IR Toy protocol driver (light_controller/ir_toy/       *)
(* ir_toy.py, class IR_Toy).  Each action is one blocking read or write of *)
(* the driver on its serial connection, together with the Python code that *)
(* runs up to the next read or write.  A read or write either completes or *)
(* raises (TransportFault); what the device answers is chosen from small   *)
(* sets.  The code is modelled as Python 3 runs it: serial reads and       *)
(* struct.unpack yield bytes objects, literals such as 'C' are str.        *)
(*                                                                         *)
(* On top of the driver: LightController (light_controller.py), whose      *)
(* methods look a button name up in the dict loaded from the button file   *)
(* and call the driver, and the loop of BuildBotSession.getStatus          *)
(* (build-bot-status.py).  Spec is the driver used alone; SpecController,  *)
(* SpecRecord, SpecRecordAll and SpecPoller drive it through those layers; *)
(* SpecTransmit is transmitCode on a link where every read and write       *)
(* completes.  The calls BuildBotSession.__init__ makes (lightsOn, then    *)
(* setColour('white')) are the first two actions of SpecPoller; the call   *)
(* BuildBotSession.__del__ makes (lightsOff) and the close() of            *)
(* IR_Toy.__del__ are its last two.                                        *)
(***************************************************************************)
EXTENDS Integers, Sequences, FiniteSets, TLC

(* ------------------------------ bounds --------------------------------- *)

\* longest code list handed to transmitCode
MaxCodeLen == 4

\* largest free-buffer size (credit) the device advertises
MaxCredit == 2

\* most bytes the device sends during one capture
MaxSignalLen == 3

\* byte values an IR code is made of
CodeBytes == {1, 255}

\* status bytes of the completion report: 'C', 'F', and one that is neither
StatusBytes == {67, 70, 0}

\* byte values of the device's answer to 'v': '0', '2', 'V'
VersionBytes == {48, 50, 86}

\* byte values the device sends while a signal is captured
SignalBytes == {1, 255}

(* ----------------------------- Python values --------------------------- *)

Min(a, b) == IF a < b THEN a ELSE b

\* a Python 3 bytes object and a Python 3 str, by their code points
PyBytes(s) == [type |-> "bytes", val |-> s]

PyStr(s) == [type |-> "str", val |-> s]

PyNone == [type |-> "NoneType", val |-> <<>>]

\* s[a:b] for 0 <= a <= b
Slice(s, a, b) ==
    IF a >= Min(b, Len(s)) THEN <<>> ELSE SubSeq(s, a + 1, Min(b, Len(s)))

\* s[-2:]
LastTwo(s) == IF Len(s) <= 2 THEN s ELSE SubSeq(s, Len(s) - 1, Len(s))

\* all sequences over S of length 0..n
SeqsUpTo(S, n) == UNION {[1..k -> S] : k \in 0..n}

(* ------------------------------ constants ------------------------------ *)

\* IR_Toy.TERMINATOR
TERMINATOR == <<255, 255>>

\* CommandEnum
CommandEnum ==
    [reset |-> 0, transmit |-> 3, getFrequencyReport |-> 4,
     setSampleTimer |-> 5, setFrequencyModulationTimer |-> 6,
     setLED_MuteOn |-> 16, setLED_MuteOff |-> 17, setLED_On |-> 18,
     setLED_Off |-> 19, getSettingsReport |-> 35, enableTX_ByteReport |-> 36,
     enableTX_NotifyOnComplete |-> 37, enableTX_Handshake |-> 38]

\* the device's answer to 'S': the protocol version "S01"
SamplingAck == <<83, 48, 49>>

(* ------------------------------- state --------------------------------- *)

VARIABLES
    op,              \* public method of IR_Toy in flight or last called
    pc,              \* the read or write the driver is about to do, or "idle"
    stack,           \* where to continue when the running helper returns
    region,          \* part of the try statement running: pre/try/except/finally
    pending,         \* return value or exception held while finally runs
    result,          \* how the last call ended: a value's repr or an exception
    trace,           \* helper methods entered and events of the current call
    faultAt,         \* the reads and writes that raised in the current call:
                     \* [at |-> the pc, in |-> the region that was running]
    ioDone,          \* TRUE once the current call attempted a read or write
    arg,             \* the list passed to transmitCode, as it was at the
                     \* call; the list a one-command method writes
    code,            \* that list object now (transmitCode extends it in place)
    idx,             \* transmitCode: idx
    bytesSent,       \* transmitCode: bytesSent
    bufferSize,      \* transmitCode: bufferSize
    complete,        \* transmitCode: complete (4th field of the report)
    credit,          \* device: the free-buffer size it advertised last
    out,             \* connection: the list of the last completed write
    chunk,           \* connection: the list of the last chunk write
    chunkCredit,     \* device: the credit that stood when that chunk came
    wire,            \* device: the code bytes it accepted in this transmit
    resumed,         \* connection: some chunk write was short
    buffer,          \* getVersion: buffer
    version,         \* getVersion: the tuple it returns
    irCode,          \* receiveSignal: irCode
    readCount,       \* receiveSignal: readCount
    mode,            \* device: Reset, Sampling or Transmit
    protocolVersion, \* IR_Toy.protocolVersion
    settings,        \* getSettings: the fields of the report it returns
    frequency,       \* getFrequencyReport: the tuple it returns
    isOpen,          \* connection: open (IR_Toy.close closes it)
    caller,          \* method of LightController in flight or last called
    name,            \* its argument: a button, colour or command name
    buttons,         \* LightController._buttons: name -> list
    file,            \* the button file: [kind, map]
    recLog,          \* buttons stored and file dumps of the current call
    captured,        \* names whose entry was stored by recordButton
    poll,            \* BuildBotSession: what the current poll was answered
    prevPoll,        \* BuildBotSession: what the poll before it was answered
    colourCall,      \* the colour this poll passed to setColour, or ""
    session          \* BuildBotSession: the next call of __init__, "polling"
                     \* once __init__ has made its calls, "deleted" once
                     \* __del__ has made its call, "freed" once the driver
                     \* has closed the connection, "none" without a session

ctlVars == <<op, pc, stack, region, pending, result, trace>>

txVars == <<arg, code, idx, bytesSent, bufferSize, complete>>

devVars == <<credit, out, chunk, chunkCredit, wire, resumed>>

gvVars == <<buffer, version>>

rsVars == <<irCode, readCount>>

ctlrVars == <<caller, name, buttons, file, recLog, captured>>

pollVars == <<poll, prevPoll, colourCall, session>>

rptVars == <<settings, frequency>>

appVars == <<ctlrVars, pollVars>>

vars == <<op, pc, stack, region, pending, result, trace, faultAt, ioDone,
          arg, code, idx, bytesSent, bufferSize, complete,
          credit, out, chunk, chunkCredit, wire, resumed,
          buffer, version, irCode, readCount, mode, protocolVersion,
          settings, frequency, isOpen,
          caller, name, buttons, file, recLog, captured,
          poll, prevPoll, colourCall, session>>

(* --------------------- control: calls, returns, raises ----------------- *)

\* the control part of the state as one value
Ctl ==
    [pc |-> pc, stack |-> stack, region |-> region, pending |-> pending,
     result |-> result, trace |-> trace]

SetCtl(k) ==
    /\ pc' = k.pc
    /\ stack' = k.stack
    /\ region' = k.region
    /\ pending' = k.pending
    /\ result' = k.result
    /\ trace' = k.trace

\* the control state of a method that has just been called
Fresh ==
    [pc |-> "idle", stack |-> <<>>, region |-> "body", pending |-> "",
     result |-> "", trace |-> <<>>]

\* control returns to the caller of the public method: a value or an exception
Finish(k, r) ==
    [k EXCEPT !.pc = "idle", !.stack = <<>>, !.region = "none",
              !.pending = "", !.result = r]

\* self.reset() is called; ret is where the caller continues
Call_reset(k, ret) ==
    [k EXCEPT !.pc = "reset_1", !.stack = <<ret>> \o @,
              !.trace = Append(@, "reset")]

\* self.setSamplingMode() is called: its first statement is self.reset()
Call_setSamplingMode(k, ret) ==
    Call_reset([k EXCEPT !.stack = <<ret>> \o @,
                         !.trace = Append(@, "setSamplingMode")], "ssm_S")

\* transmitCode, finally clause: value is what is returned or raised after it
transmitCode_finally(k, value) ==
    Call_setSamplingMode([k EXCEPT !.stack = <<>>, !.region = "finally",
                                   !.pending = value], "tc_end")

\* transmitCode, bare except clause: log, reset, fall off the end (None)
transmitCode_except(k) ==
    Call_reset([k EXCEPT !.stack = <<>>, !.region = "except",
                         !.trace = Append(@, "logging.error")], "tc_except_end")

\* an exception reaches transmitCode's frame while `k.region` runs
transmitCode_raise(k, exc) ==
    CASE k.region = "try" -> transmitCode_except(k)
      [] k.region = "except" -> transmitCode_finally(k, exc)
      [] OTHER -> Finish(k, exc)

\* getVersion, finally clause
getVersion_finally(k, value) ==
    Call_setSamplingMode([k EXCEPT !.stack = <<>>, !.region = "finally",
                                   !.pending = value], "gv_end")

\* the exception leaves getVersion without its finally clause
getVersion_raise_noFinally(k, exc) == Finish(k, exc)

\* an exception reaches getVersion's frame
getVersion_raise(k, exc) ==
    IF k.region = "try" THEN getVersion_finally(k, exc) ELSE Finish(k, exc)

\* an exception reaches receiveSignal's frame: it has no handler
receiveSignal_raise(k, exc) == Finish(k, exc)

\* an exception is raised below the public method `op`
Raise(k, exc) ==
    CASE op = "transmitCode" -> transmitCode_raise(k, exc)
      [] op = "getVersion" -> getVersion_raise(k, exc)
      [] OTHER -> receiveSignal_raise(k, exc)

\* while bytesSent < len(code)
LoopTest(n, c) == n < Len(c)

\* a helper method returns: continue at the label on top of the stack
Return(k) ==
    LET to == Head(k.stack)
        r == [k EXCEPT !.stack = Tail(@)]
    IN CASE to = "tc_loop" ->
              [r EXCEPT !.region = "try",
                        !.pc = IF LoopTest(bytesSent, code)
                               THEN "tc_write" ELSE "tc_report"]
         [] to = "tc_return_False" -> transmitCode_finally(r, "False")
         [] to = "tc_except_end" -> transmitCode_finally(r, "None")
         [] to \in {"tc_end", "gv_end"} -> Finish(r, r.pending)
         [] to = "return_None" -> Finish(r, "None")
         [] to = "return_int" -> Finish(r, "int")
         [] to = "rb_ssm" -> Call_setSamplingMode(r, "rb_receive")
         [] to = "rb_receive" -> Call_setSamplingMode(r, "rs_read")
         [] OTHER -> [r EXCEPT !.pc = to]

(* --------------------------- pure parts of the code -------------------- *)

\* the length check without the test for odd lengths
ValidLength_noParity(c) == ~(Len(c) < 2)

\* transmitCode: the length check (its negation raises ValueError)
ValidLength(c) == ~(Len(c) < 2 \/ Len(c) % 2 /= 0)

\* transmitCode: code.extend(TERMINATOR) unless code[-2:] is the terminator
Extend(c) == IF LastTwo(c) /= TERMINATOR THEN c \o TERMINATOR ELSE c

\* a slice one byte longer than the buffer size
Chunk_oneMore(c, i, size) == Slice(c, i, i + size + 1)

\* transmitCode: code[idx:idx + bufferSize]
Chunk(c, i, size) == Slice(c, i, i + size)

\* the offset advanced by the length of the chunk, not by what was written
AdvanceIdx_wholeChunk(i, sent, ch) == i + Len(ch)

\* transmitCode: idx += sent
AdvanceIdx(i, sent, ch) == i + sent

\* struct.unpack('>BHc', completionReport)
Unpack_BHc(b) ==
    [byteThing |-> b[1], bytesReported |-> b[2] * 256 + b[3],
     complete |-> PyBytes(<<b[4]>>)]

\* only a status of 'F' taken as a failure
NotComplete_onlyF(c) == c = PyBytes(<<70>>)

\* transmitCode: complete != 'C'
NotComplete(c) == c /= PyStr(<<67>>)

\* struct.unpack('>2s2s', buffer)
Unpack_2s2s(b) ==
    [hardware |-> PyBytes(SubSeq(b, 1, 2)), revision |-> PyBytes(SubSeq(b, 3, 4))]

IsDigit(b) == b \in 48..57

IsSpace(b) == b \in (9..13) \cup {32}

IsSign(b) == b \in {43, 45}

\* int(revision) of a 2-byte bytes object: TRUE when it does not raise
IntParses(r) ==
    LET a == r.val[1]
        b == r.val[2]
    IN \/ IsDigit(a) /\ IsDigit(b)
       \/ IsSpace(a) /\ IsDigit(b)
       \/ IsDigit(a) /\ IsSpace(b)
       \/ IsSign(a) /\ IsDigit(b)

\* int(revision) where it parses
IntOf(r) ==
    LET a == r.val[1]
        b == r.val[2]
    IN CASE IsDigit(a) /\ IsDigit(b) -> (a - 48) * 10 + (b - 48)
         [] IsDigit(a) -> a - 48
         [] a = 45 -> 0 - (b - 48)
         [] OTHER -> b - 48

\* receiveSignal: irCode[-2:] == self.TERMINATOR
Terminated(c) == LastTwo(c) = TERMINATOR

(* -------------------- LightController: names and the file -------------- *)

\* LightController.buttonNames
buttonNames ==
    <<"brightnessDown", "brightnessUp", "off", "on", "red",
      "green", "blue", "white", "red2", "green2", "blue2",
      "flash", "orange", "cyan", "purple", "strobe", "orange2",
      "cyan2", "violet", "fade", "yellow", "teal", "lavender",
      "smooth">>

\* LightController._colours
_colours ==
    <<"red", "green", "blue", "white", "red2", "green2", "blue2",
      "orange", "cyan", "purple", "orange2", "cyan2", "violet",
      "yellow", "teal", "lavender">>

\* LightController._commands
_commands ==
    <<"brightnessUp", "brightnessDown", "flash", "strobe",
      "fade", "smooth">>

\* x in t, for a tuple t
InTuple(x, t) == \E i \in 1..Len(t) : t[i] = x

\* the code points of a name (Python compares str by code points)
Chars(n) ==
    CASE n = "brightnessDown" -> <<98, 114, 105, 103, 104, 116, 110, 101, 115, 115, 68, 111, 119, 110>>
    [] n = "brightnessUp" -> <<98, 114, 105, 103, 104, 116, 110, 101, 115, 115, 85, 112>>
    [] n = "off" -> <<111, 102, 102>>
    [] n = "on" -> <<111, 110>>
    [] n = "red" -> <<114, 101, 100>>
    [] n = "green" -> <<103, 114, 101, 101, 110>>
    [] n = "blue" -> <<98, 108, 117, 101>>
    [] n = "white" -> <<119, 104, 105, 116, 101>>
    [] n = "red2" -> <<114, 101, 100, 50>>
    [] n = "green2" -> <<103, 114, 101, 101, 110, 50>>
    [] n = "blue2" -> <<98, 108, 117, 101, 50>>
    [] n = "flash" -> <<102, 108, 97, 115, 104>>
    [] n = "orange" -> <<111, 114, 97, 110, 103, 101>>
    [] n = "cyan" -> <<99, 121, 97, 110>>
    [] n = "purple" -> <<112, 117, 114, 112, 108, 101>>
    [] n = "strobe" -> <<115, 116, 114, 111, 98, 101>>
    [] n = "orange2" -> <<111, 114, 97, 110, 103, 101, 50>>
    [] n = "cyan2" -> <<99, 121, 97, 110, 50>>
    [] n = "violet" -> <<118, 105, 111, 108, 101, 116>>
    [] n = "fade" -> <<102, 97, 100, 101>>
    [] n = "yellow" -> <<121, 101, 108, 108, 111, 119>>
    [] n = "teal" -> <<116, 101, 97, 108>>
    [] n = "lavender" -> <<108, 97, 118, 101, 110, 100, 101, 114>>
    [] n = "smooth" -> <<115, 109, 111, 111, 116, 104>>
    [] n = "notacolour" -> <<110, 111, 116, 97, 99, 111, 108, 111, 117, 114>>

\* a < b for two str
RECURSIVE SeqLess(_, _)
SeqLess(a, b) ==
    IF a = <<>> THEN b /= <<>>
    ELSE IF b = <<>> THEN FALSE
    ELSE IF Head(a) /= Head(b) THEN Head(a) < Head(b)
    ELSE SeqLess(Tail(a), Tail(b))

StrLess(a, b) == SeqLess(Chars(a), Chars(b))

\* x put into the sorted list t at its place
RECURSIVE Insert(_, _)
Insert(x, t) ==
    IF t = <<>> THEN <<x>>
    ELSE IF StrLess(x, Head(t)) THEN <<x>> \o t
    ELSE <<Head(t)>> \o Insert(x, Tail(t))

\* sorted(t) for a tuple of str
RECURSIVE sorted(_)
sorted(t) == IF t = <<>> THEN <<>> ELSE Insert(Head(t), sorted(Tail(t)))

\* a dict with no key
EmptyMap == [n \in {} |-> <<>>]

\* d[n] = v
Put(d, n, v) == [m \in DOMAIN d \cup {n} |-> IF m = n THEN v ELSE d[m]]

\* no button file at the configured path
MissingFile == [kind |-> "missing", map |-> EmptyMap]

\* a button file holding the JSON object m (name -> array of numbers)
JsonFile(m) == [kind |-> "json", map |-> m]

\* a button file of zero bytes
EmptyFile == [kind |-> "empty", map |-> EmptyMap]

\* os.path.exists(self._buttonsFile)
Exists(f) == f.kind /= "missing"

\* json.load(fp) parses: a file of zero bytes is no JSON document
JsonParses(f) == f.kind = "json"

\* json.load(fp): each array becomes a list of the same numbers, unchecked
JsonLoad(f) == [n \in DOMAIN f.map |-> f.map[n]]

\* dumpButtons under Python 3: open(file, 'wb') truncates the file, and
\* json.dump then writes str to the binary file, which raises TypeError
\* before a byte is written
dumpButtons_file(b) == EmptyFile

dumpButtons_result == "TypeError"

\* bytearray(data) in writeArray: raises ValueError unless all are bytes
ByteArrayOk(data) == \A i \in 1..Len(data) : data[i] \in 0..255

(* -------------------------------- Init --------------------------------- *)

\* the last build has no "results" entry, or was not asked for
NoResults == [present |-> FALSE, value |-> 0]

\* before the first poll
NoPoll == [state |-> "", results |-> NoResults]

\* transmitCode's locals and the device's view of a transmit, before a call
TxClear ==
    /\ idx' = 0
    /\ bytesSent' = 0
    /\ bufferSize' = 0
    /\ complete' = PyNone
    /\ credit' = 0
    /\ out' = <<>>
    /\ chunk' = <<>>
    /\ chunkCredit' = 0
    /\ wire' = <<>>
    /\ resumed' = FALSE

GvClear == buffer' = PyNone /\ version' = <<>>

RsClear == irCode' = <<>> /\ readCount' = 0

\* what getSettings and getFrequencyReport return, before a call
RptClear == settings' = <<>> /\ frequency' = <<>>

\* the state after IR_Toy.__init__: flushed, Sampling mode entered
IR_Toy_init ==
    /\ op = "__init__"
    /\ pc = "idle"
    /\ stack = <<>>
    /\ region = "none"
    /\ pending = ""
    /\ result = ""
    /\ trace = <<>>
    /\ faultAt = <<>>
    /\ ioDone = FALSE
    /\ arg = <<>>
    /\ code = <<>>
    /\ idx = 0
    /\ bytesSent = 0
    /\ bufferSize = 0
    /\ complete = PyNone
    /\ credit = 0
    /\ out = <<>>
    /\ chunk = <<>>
    /\ chunkCredit = 0
    /\ wire = <<>>
    /\ resumed = FALSE
    /\ buffer = PyNone
    /\ version = <<>>
    /\ irCode = <<>>
    /\ readCount = 0
    /\ mode = "Sampling"
    /\ protocolVersion = PyBytes(SamplingAck)
    /\ settings = <<>>
    /\ frequency = <<>>
    /\ isOpen = TRUE

\* no LightController is built on the driver
NoController ==
    /\ caller = ""
    /\ name = ""
    /\ buttons = EmptyMap
    /\ file = MissingFile
    /\ recLog = <<>>
    /\ captured = {}

\* no poller is built on the controller
NoPoller ==
    /\ poll = NoPoll
    /\ prevPoll = NoPoll
    /\ colourCall = ""
    /\ session = "none"

\* the driver alone, after its construction
Init == IR_Toy_init /\ NoController /\ NoPoller

(* ------------------------------ transmitCode --------------------------- *)

\* a read or write completes, which it does only on an open connection:
\* the frame of every such step
IOStep == isOpen /\ ioDone' = TRUE /\ faultAt' = faultAt

\* self.writeByte(b) for a command that has no answer
writeByte(b) == out' = <<b>>

\* a method of the driver is called directly, not through LightController
DriverCall ==
    /\ caller' = ""
    /\ name' = ""
    /\ UNCHANGED <<buttons, file, recLog, captured, pollVars>>

\* transmitCode(code) is called: the length check, the terminator, the
\* locals, and the call of setTransmitMode
transmitCode_call(c) ==
    /\ pc = "idle"
    /\ op' = "transmitCode"
    /\ arg' = c
    /\ faultAt' = <<>>
    /\ ioDone' = FALSE
    /\ TxClear
    /\ GvClear
    /\ RsClear
    /\ IF ~ValidLength(c)
       THEN /\ code' = c
            /\ SetCtl(Finish(Fresh, "ValueError"))
       ELSE /\ code' = Extend(c)
            /\ SetCtl([Fresh EXCEPT !.pc = "stm_handshake",
                                    !.stack = <<"tc_loop">>,
                                    !.region = "pre",
                                    !.trace = <<"setTransmitMode">>])
    /\ RptClear
    /\ UNCHANGED <<mode, protocolVersion, isOpen>>

\* transmitCode called on the driver itself
transmitCode(c) == transmitCode_call(c) /\ DriverCall

\* setTransmitMode: self.enableTX_Handshake()
enableTX_Handshake ==
    /\ pc = "stm_handshake"
    /\ writeByte(CommandEnum.enableTX_Handshake)
    /\ pc' = "stm_bytecount"
    /\ IOStep
    /\ UNCHANGED <<op, stack, region, pending, result, trace, txVars,
                   credit, chunk, chunkCredit, wire, resumed,
                   gvVars, rsVars, mode, protocolVersion>>
    /\ UNCHANGED <<rptVars, isOpen, appVars>>

\* setTransmitMode: self.enableTX_ByteCount()
enableTX_ByteCount ==
    /\ pc = "stm_bytecount"
    /\ writeByte(CommandEnum.enableTX_ByteReport)
    /\ pc' = "stm_notify"
    /\ IOStep
    /\ UNCHANGED <<op, stack, region, pending, result, trace, txVars,
                   credit, chunk, chunkCredit, wire, resumed,
                   gvVars, rsVars, mode, protocolVersion>>
    /\ UNCHANGED <<rptVars, isOpen, appVars>>

\* setTransmitMode: self.enableTX_NotifyOnComplete()
enableTX_NotifyOnComplete ==
    /\ pc = "stm_notify"
    /\ writeByte(CommandEnum.enableTX_NotifyOnComplete)
    /\ pc' = "stm_transmit"
    /\ IOStep
    /\ UNCHANGED <<op, stack, region, pending, result, trace, txVars,
                   credit, chunk, chunkCredit, wire, resumed,
                   gvVars, rsVars, mode, protocolVersion>>
    /\ UNCHANGED <<rptVars, isOpen, appVars>>

\* enableTransmitMode: self.writeByte(CommandEnum.transmit)
enableTransmitMode_write ==
    /\ pc = "stm_transmit"
    /\ writeByte(CommandEnum.transmit)
    /\ mode' = "Transmit"
    /\ pc' = "stm_read"
    /\ IOStep
    /\ UNCHANGED <<op, stack, region, pending, result, trace, txVars,
                   credit, chunk, chunkCredit, wire, resumed,
                   gvVars, rsVars, protocolVersion>>
    /\ UNCHANGED <<rptVars, isOpen, appVars>>

\* enableTransmitMode: return ord(self.read(1)); setTransmitMode returns it
\* and transmitCode enters its try statement and tests the loop condition
enableTransmitMode_read ==
    /\ pc = "stm_read"
    /\ \E b \in 0..MaxCredit :
          /\ bufferSize' = b
          /\ credit' = b
    /\ SetCtl(Return(Ctl))
    /\ IOStep
    /\ UNCHANGED <<op, arg, code, idx, bytesSent, complete,
                   out, chunk, chunkCredit, wire, resumed,
                   gvVars, rsVars, mode, protocolVersion>>
    /\ UNCHANGED <<rptVars, isOpen, appVars>>

\* the loop body's write: sent = self.writeArray(code[idx:idx + bufferSize]);
\* idx += sent; bytesSent += sent.  The connection reports 0..len bytes
\* written, and the device has accepted exactly those.
transmitCode_write ==
    /\ pc = "tc_write"
    /\ LET ch == Chunk(code, idx, bufferSize)
       IN IF ByteArrayOk(ch)
          THEN /\ \E sent \in 0..Len(ch) :
                     /\ out' = ch
                     /\ chunk' = ch
                     /\ chunkCredit' = credit
                     /\ wire' = wire \o SubSeq(ch, 1, sent)
                     /\ resumed' = (resumed \/ sent < Len(ch))
                     /\ idx' = AdvanceIdx(idx, sent, ch)
                     /\ bytesSent' = bytesSent + sent
               /\ pc' = "tc_credit"
               /\ IOStep
               /\ UNCHANGED <<stack, region, pending, result, trace>>
          ELSE /\ SetCtl(Raise(Ctl, "ValueError"))
               /\ UNCHANGED <<out, chunk, chunkCredit, wire, resumed, idx,
                              bytesSent, ioDone, faultAt>>
    /\ UNCHANGED <<op, arg, code, bufferSize, complete, credit,
                   gvVars, rsVars, mode, protocolVersion>>
    /\ UNCHANGED <<rptVars, isOpen, appVars>>

\* the loop body's read: bufferSize = ord(self.read(1)), then the loop test
transmitCode_credit ==
    /\ pc = "tc_credit"
    /\ \E b \in 0..MaxCredit :
          /\ bufferSize' = b
          /\ credit' = b
    /\ pc' = IF LoopTest(bytesSent, code) THEN "tc_write" ELSE "tc_report"
    /\ IOStep
    /\ UNCHANGED <<op, stack, region, pending, result, trace,
                   arg, code, idx, bytesSent, complete,
                   out, chunk, chunkCredit, wire, resumed,
                   gvVars, rsVars, mode, protocolVersion>>
    /\ UNCHANGED <<rptVars, isOpen, appVars>>

\* after the loop: the wait, completionReport = self.read(4), the unpacking
\* and the test of the completion code
transmitCode_report ==
    /\ pc = "tc_report"
    /\ \E s \in StatusBytes :
          LET completionReport ==
                  <<116, bytesSent \div 256, bytesSent % 256, s>>
              u == Unpack_BHc(completionReport)
              k == [Ctl EXCEPT !.trace = Append(@, "completionReport")]
          IN /\ complete' = u.complete
             /\ SetCtl(IF NotComplete(u.complete)
                       THEN Call_reset(k, "tc_return_False")
                       ELSE transmitCode_finally(k, "True"))
    /\ IOStep
    /\ UNCHANGED <<op, arg, code, idx, bytesSent, bufferSize, devVars,
                   gvVars, rsVars, mode, protocolVersion>>
    /\ UNCHANGED <<rptVars, isOpen, appVars>>

(* ----------------------- reset and setSamplingMode --------------------- *)

\* reset: self.writeArray(self.TERMINATOR)
reset_terminator ==
    /\ pc = "reset_1"
    /\ out' = TERMINATOR
    /\ pc' = "reset_2"
    /\ IOStep
    /\ UNCHANGED <<op, stack, region, pending, result, trace, txVars,
                   credit, chunk, chunkCredit, wire, resumed,
                   gvVars, rsVars, mode, protocolVersion>>
    /\ UNCHANGED <<rptVars, isOpen, appVars>>

\* reset: self.writeArray((CommandEnum.reset,) * 5), the 50 ms wait, return
reset_commands ==
    /\ pc = "reset_2"
    /\ out' = [i \in 1..5 |-> CommandEnum.reset]
    /\ mode' = "Reset"
    /\ SetCtl(Return(Ctl))
    /\ IOStep
    /\ UNCHANGED <<op, txVars, credit, chunk, chunkCredit, wire, resumed,
                   gvVars, rsVars, protocolVersion>>
    /\ UNCHANGED <<rptVars, isOpen, appVars>>

\* setSamplingMode: self.writeByte(ord('S'))
setSamplingMode_write ==
    /\ pc = "ssm_S"
    /\ writeByte(83)
    /\ mode' = "Sampling"
    /\ pc' = "ssm_read"
    /\ IOStep
    /\ UNCHANGED <<op, stack, region, pending, result, trace, txVars,
                   credit, chunk, chunkCredit, wire, resumed,
                   gvVars, rsVars, protocolVersion>>
    /\ UNCHANGED <<rptVars, isOpen, appVars>>

\* setSamplingMode: self.protocolVersion = self.read(3), return
setSamplingMode_read ==
    /\ pc = "ssm_read"
    /\ protocolVersion' = PyBytes(SamplingAck)
    /\ SetCtl(Return(Ctl))
    /\ IOStep
    /\ UNCHANGED <<op, txVars, devVars, gvVars, rsVars, mode>>
    /\ UNCHANGED <<rptVars, isOpen, appVars>>

(* ------------------------------- getVersion ---------------------------- *)

\* getVersion() is called: the try statement is entered and reset called
getVersion_call ==
    /\ pc = "idle"
    /\ op' = "getVersion"
    /\ faultAt' = <<>>
    /\ ioDone' = FALSE
    /\ arg' = <<>>
    /\ code' = <<>>
    /\ TxClear
    /\ GvClear
    /\ RsClear
    /\ SetCtl(Call_reset([Fresh EXCEPT !.region = "try"], "gv_write"))
    /\ RptClear
    /\ UNCHANGED <<mode, protocolVersion, isOpen>>

\* getVersion called on the driver itself
getVersion == getVersion_call /\ DriverCall

\* getVersion: self.writeByte(ord('v'))
getVersion_write ==
    /\ pc = "gv_write"
    /\ writeByte(118)
    /\ pc' = "gv_read"
    /\ IOStep
    /\ UNCHANGED <<op, stack, region, pending, result, trace, txVars,
                   credit, chunk, chunkCredit, wire, resumed,
                   gvVars, rsVars, mode, protocolVersion>>
    /\ UNCHANGED <<rptVars, isOpen, appVars>>

\* getVersion: buffer = self.read(4), the unpacking, int(revision), return
getVersion_read ==
    /\ pc = "gv_read"
    /\ \E b \in [1..4 -> VersionBytes] :
          LET u == Unpack_2s2s(b)
          IN /\ buffer' = PyBytes(b)
             /\ IF IntParses(u.revision)
                THEN /\ version' = <<u.hardware, IntOf(u.revision)>>
                     /\ SetCtl(getVersion_finally(Ctl, "tuple"))
                ELSE /\ version' = <<>>
                     /\ SetCtl(Raise(Ctl, "ValueError"))
    /\ IOStep
    /\ UNCHANGED <<op, txVars, devVars, rsVars, mode, protocolVersion>>
    /\ UNCHANGED <<rptVars, isOpen, appVars>>

(* ------------------------------ receiveSignal -------------------------- *)

\* LightController.recordButtons: the next button of the for loop after
\* `n`, or "" when n was the last
NextButton(n) ==
    LET order == sorted(buttonNames)
        i == CHOOSE j \in 1..Len(order) : order[j] = n
    IN IF i < Len(order) THEN order[i + 1] ELSE ""

\* recordButtons has a further button to record after `name`: recordButton
\* and receiveSignal are called again, with new locals
Continues == caller = "recordButtons" /\ NextButton(name) /= ""

\* LightController.recordButton after receiveSignal returned c:
\* self._buttons[button] = irCode, then dumpButtons if dump; in
\* recordButtons (dump=False) the for loop goes on to the next button and
\* dumps after the last
recordButton_store(c) ==
    LET b == Put(buttons, name, c)
        last == ~Continues
    IN /\ buttons' = b
       /\ captured' = captured \cup {name}
       /\ caller' = caller
       /\ IF last
          THEN /\ recLog' = recLog \o <<name, "dumpButtons">>
               /\ file' = dumpButtons_file(b)
               /\ name' = name
               /\ SetCtl(Finish(Ctl, dumpButtons_result))
          ELSE /\ recLog' = Append(recLog, name)
               /\ file' = file
               /\ name' = NextButton(name)
               /\ SetCtl(Call_reset([Ctl EXCEPT !.stack = <<>>], "rb_ssm"))

\* receiveSignal returns irCode: to the caller of the driver, or into
\* LightController.recordButton
receiveSignal_return(c) ==
    IF caller \in {"recordButton", "recordButtons"}
    THEN recordButton_store(c)
    ELSE SetCtl(Finish(Ctl, "list")) /\ UNCHANGED ctlrVars

\* the bytes the device sends during a capture: while all 24 buttons are
\* recorded in one call, only sentinel bytes
CaptureBytes == IF caller = "recordButtons" THEN {255} ELSE SignalBytes

\* receiveSignal() is called: setSamplingMode is called, the locals are set
receiveSignal_call ==
    /\ pc = "idle"
    /\ op' = "receiveSignal"
    /\ faultAt' = <<>>
    /\ ioDone' = FALSE
    /\ arg' = <<>>
    /\ code' = <<>>
    /\ TxClear
    /\ GvClear
    /\ RsClear
    /\ SetCtl(Call_setSamplingMode(Fresh, "rs_read"))
    /\ RptClear
    /\ UNCHANGED <<mode, protocolVersion, isOpen>>

\* receiveSignal called on the driver itself
receiveSignal == receiveSignal_call /\ DriverCall

\* one pass of the while loop: readByte = self.read(1); an empty read goes
\* round again; otherwise the byte is appended, and the loop is left when
\* the last two bytes are the terminator
receiveSignal_read ==
    /\ pc = "rs_read"
    /\ Len(irCode) < MaxSignalLen
    /\ \/ /\ UNCHANGED <<pc, stack, region, pending, result, trace, rsVars>>
          /\ UNCHANGED ctlrVars
       \/ \E readByte \in CaptureBytes :
             LET c == Append(irCode, readByte)
             IN /\ IF Terminated(c)
                   THEN /\ irCode' = IF Continues THEN <<>> ELSE c
                        /\ readCount' = IF Continues THEN 0 ELSE readCount
                        /\ receiveSignal_return(c)
                   ELSE /\ irCode' = c
                        /\ readCount' = readCount + 1
                        /\ UNCHANGED <<pc, stack, region, pending, result,
                                       trace>>
                        /\ UNCHANGED ctlrVars
    /\ IOStep
    /\ UNCHANGED <<op, txVars, devVars, gvVars, mode, protocolVersion,
                   rptVars, isOpen, pollVars>>

(* ------------------------------ getSettings --------------------------- *)

\* the 8-byte settings report of the device: PR2 10, duty cycle 20,
\* prescalers 3 and 7, clock 36,000,000 Hz
SettingsReport == <<10, 20, 3, 7, 2, 37, 81, 0>>

\* struct.unpack(">BBBBL", settingsBuffer)
Unpack_BBBBL(b) ==
    <<b[1], b[2], b[3], b[4],
      ((b[5] * 256 + b[6]) * 256 + b[7]) * 256 + b[8]>>

\* getSettings() is called: no reset, no change of mode
getSettings_call ==
    /\ pc = "idle"
    /\ op' = "getSettings"
    /\ faultAt' = <<>>
    /\ ioDone' = FALSE
    /\ arg' = <<>>
    /\ code' = <<>>
    /\ TxClear
    /\ GvClear
    /\ RsClear
    /\ SetCtl([Fresh EXCEPT !.pc = "gs_write"])
    /\ RptClear
    /\ UNCHANGED <<mode, protocolVersion, isOpen>>

\* getSettings() called on the driver itself
getSettings == getSettings_call /\ DriverCall

\* getSettings: self.writeByte(CommandEnum.getSettingsReport)
getSettings_write ==
    /\ pc = "gs_write"
    /\ writeByte(CommandEnum.getSettingsReport)
    /\ pc' = "gs_read"
    /\ IOStep
    /\ UNCHANGED <<op, stack, region, pending, result, trace, txVars,
                   credit, chunk, chunkCredit, wire, resumed,
                   gvVars, rsVars, mode, protocolVersion>>
    /\ UNCHANGED <<rptVars, isOpen, appVars>>

\* getSettings: settingsBuffer = self.read(8), the unpacking, return
getSettings_read ==
    /\ pc = "gs_read"
    /\ settings' = Unpack_BBBBL(SettingsReport)
    /\ SetCtl(Finish(Ctl, "IR_ToySettings"))
    /\ IOStep
    /\ UNCHANGED <<op, txVars, devVars, gvVars, rsVars, mode,
                   protocolVersion, frequency, isOpen, appVars>>

(* -------------------- the other methods of the driver ------------------ *)

\* prescale values handed to setSampleTimer
SampleTimers == {3}

\* PR2 values and duty cycles handed to setTX_Modulation
PR2Values == {99}

DutyCycles == {0, 5}

\* lists handed to writeArray: one of bytes, one with a value that is none
WrittenArrays == {<<1, 255>>, <<1, 300>>}

\* the 8 bytes the device answers getFrequencyReport with
FrequencyReport == <<0, 10, 0, 20, 0, 30, 1, 0>>

\* struct.unpack(">4H", buffer)
Unpack_4H(b) ==
    <<b[1] * 256 + b[2], b[3] * 256 + b[4],
      b[5] * 256 + b[6], b[7] * 256 + b[8]>>

\* the frame of a call that starts no transmit, version read or capture
PlainCall(method) ==
    /\ pc = "idle"
    /\ op' = method
    /\ faultAt' = <<>>
    /\ ioDone' = FALSE
    /\ code' = <<>>
    /\ TxClear
    /\ GvClear
    /\ RsClear
    /\ RptClear
    /\ UNCHANGED <<mode, protocolVersion>>

\* a method that is one writeArray(data): bytearray(data) raises before
\* the write when some value is no byte; ret is what the method returns
\* after the write
command_call(method, data, ret) ==
    /\ PlainCall(method)
    /\ arg' = data
    /\ IF ByteArrayOk(data)
       THEN SetCtl([Fresh EXCEPT !.pc = "cmd_write", !.pending = ret])
       ELSE SetCtl(Finish(Fresh, "ValueError"))
    /\ isOpen' = isOpen
    /\ DriverCall

\* the write of such a method, and its return
command_write ==
    /\ pc = "cmd_write"
    /\ out' = arg
    /\ SetCtl(Finish(Ctl, pending))
    /\ IOStep
    /\ UNCHANGED <<op, txVars, credit, chunk, chunkCredit, wire, resumed,
                   gvVars, rsVars, mode, protocolVersion>>
    /\ UNCHANGED <<rptVars, isOpen, appVars>>

\* IR_Toy.setLED_On()
setLED_On == command_call("setLED_On", <<CommandEnum.setLED_On>>, "None")

\* IR_Toy.setLED_Off()
setLED_Off == command_call("setLED_Off", <<CommandEnum.setLED_Off>>, "None")

\* IR_Toy.setMuteLED_On()
setMuteLED_On ==
    command_call("setMuteLED_On", <<CommandEnum.setLED_MuteOn>>, "None")

\* IR_Toy.setMuteLED_Off()
setMuteLED_Off ==
    command_call("setMuteLED_Off", <<CommandEnum.setLED_MuteOff>>, "None")

\* IR_Toy.setSampleTimer(prescale)
setSampleTimer(prescale) ==
    command_call("setSampleTimer",
                 <<CommandEnum.setSampleTimer, prescale>>, "None")

\* IR_Toy.setTX_Modulation(pr2, dutyCycle)
setTX_Modulation(pr2, dutyCycle) ==
    command_call("setTX_Modulation",
                 <<CommandEnum.setFrequencyModulationTimer, pr2, dutyCycle>>,
                 "None")

\* IR_Toy.enableTX_Handshake(), enableTX_ByteCount() and
\* enableTX_NotifyOnComplete() called on their own
enableTX_direct ==
    \/ command_call("enableTX_Handshake",
                    <<CommandEnum.enableTX_Handshake>>, "None")
    \/ command_call("enableTX_ByteCount",
                    <<CommandEnum.enableTX_ByteReport>>, "None")
    \/ command_call("enableTX_NotifyOnComplete",
                    <<CommandEnum.enableTX_NotifyOnComplete>>, "None")

\* IR_Toy.writeArray(data), and writeByte(b), which is writeArray([b, ])
writeArray(data) == command_call("writeArray", data, "int")

\* IR_Toy.write(data) with a bytes object
write(data) == command_call("write", data, "int")

\* IR_Toy.read(num) called on its own
read ==
    /\ PlainCall("read")
    /\ arg' = <<>>
    /\ SetCtl([Fresh EXCEPT !.pc = "raw_read"])
    /\ isOpen' = isOpen
    /\ DriverCall

\* its read completes
read_read ==
    /\ pc = "raw_read"
    /\ SetCtl(Finish(Ctl, "bytes"))
    /\ IOStep
    /\ UNCHANGED <<op, txVars, devVars, gvVars, rsVars, mode,
                   protocolVersion>>
    /\ UNCHANGED <<rptVars, isOpen, appVars>>

\* IR_Toy.getFrequencyReport()
getFrequencyReport ==
    /\ PlainCall("getFrequencyReport")
    /\ arg' = <<>>
    /\ SetCtl([Fresh EXCEPT !.pc = "fr_write"])
    /\ isOpen' = isOpen
    /\ DriverCall

\* getFrequencyReport: self.writeByte(CommandEnum.getFrequencyReport)
getFrequencyReport_write ==
    /\ pc = "fr_write"
    /\ writeByte(CommandEnum.getFrequencyReport)
    /\ pc' = "fr_read"
    /\ IOStep
    /\ UNCHANGED <<op, stack, region, pending, result, trace, txVars,
                   credit, chunk, chunkCredit, wire, resumed,
                   gvVars, rsVars, mode, protocolVersion>>
    /\ UNCHANGED <<rptVars, isOpen, appVars>>

\* getFrequencyReport: buffer = self.read(8), the unpacking, return
getFrequencyReport_read ==
    /\ pc = "fr_read"
    /\ frequency' = Unpack_4H(FrequencyReport)
    /\ SetCtl(Finish(Ctl, "tuple"))
    /\ IOStep
    /\ UNCHANGED <<op, txVars, devVars, gvVars, rsVars, mode,
                   protocolVersion, settings, isOpen, appVars>>

\* IR_Toy.reset() called on its own
reset ==
    /\ PlainCall("reset")
    /\ arg' = <<>>
    /\ SetCtl(Call_reset(Fresh, "return_None"))
    /\ isOpen' = isOpen
    /\ DriverCall

\* IR_Toy.setSamplingMode() called on its own
setSamplingMode ==
    /\ PlainCall("setSamplingMode")
    /\ arg' = <<>>
    /\ SetCtl(Call_setSamplingMode(Fresh, "return_None"))
    /\ isOpen' = isOpen
    /\ DriverCall

\* IR_Toy.setTransmitMode() called on its own
setTransmitMode ==
    /\ PlainCall("setTransmitMode")
    /\ arg' = <<>>
    /\ SetCtl([Fresh EXCEPT !.pc = "stm_handshake",
                            !.stack = <<"return_int">>,
                            !.trace = <<"setTransmitMode">>])
    /\ isOpen' = isOpen
    /\ DriverCall

\* IR_Toy.enableTransmitMode() called on its own
enableTransmitMode ==
    /\ PlainCall("enableTransmitMode")
    /\ arg' = <<>>
    /\ SetCtl([Fresh EXCEPT !.pc = "stm_transmit",
                            !.stack = <<"return_int">>])
    /\ isOpen' = isOpen
    /\ DriverCall

\* IR_Toy.flush(): the three flushes of the connection, which raise when
\* it is closed
flush ==
    /\ PlainCall("flush")
    /\ arg' = <<>>
    /\ SetCtl(Finish(Fresh, IF isOpen THEN "None" ELSE "SerialException"))
    /\ isOpen' = isOpen
    /\ DriverCall

\* IR_Toy.close(), without the caller's own state: closes the connection
\* if it is open
close_call ==
    /\ PlainCall("close")
    /\ arg' = <<>>
    /\ SetCtl(Finish(Fresh, "None"))
    /\ isOpen' = FALSE

\* IR_Toy.close()
close == close_call /\ DriverCall

(* ----------------------------- LightController ------------------------- *)

\* a method of LightController returns without calling the driver
NoCall(who, r) ==
    /\ op' = who
    /\ faultAt' = <<>>
    /\ ioDone' = FALSE
    /\ arg' = <<>>
    /\ code' = <<>>
    /\ TxClear
    /\ GvClear
    /\ RsClear
    /\ SetCtl(Finish(Fresh, r))
    /\ RptClear
    /\ UNCHANGED <<mode, protocolVersion, isOpen>>

\* loadButtons: self._buttons after the call
loadButtons_buttons(f, b) ==
    IF Exists(f) /\ JsonParses(f) THEN JsonLoad(f) ELSE b

\* loadButtons: None, or the exception json.load raises
loadButtons_result(f) ==
    IF Exists(f) /\ ~JsonParses(f) THEN "JSONDecodeError" ELSE "None"

\* LightController.loadButtons()
loadButtons ==
    /\ pc = "idle"
    /\ caller' = "loadButtons"
    /\ name' = ""
    /\ buttons' = loadButtons_buttons(file, buttons)
    /\ NoCall("loadButtons", loadButtons_result(file))
    /\ UNCHANGED <<file, recLog, captured, pollVars>>

\* LightController.dumpButtons(), called on its own: the file is opened
\* for writing and json.dump raises; self._buttons is not touched and the
\* driver is not called
dumpButtons ==
    /\ pc = "idle"
    /\ caller' = "dumpButtons"
    /\ name' = ""
    /\ recLog' = <<"dumpButtons">>
    /\ file' = dumpButtons_file(buttons)
    /\ NoCall("dumpButtons", dumpButtons_result)
    /\ UNCHANGED <<buttons, captured, pollVars>>

\* a test that lets every button name through
AnyButton(n) == InTuple(n, buttonNames)

\* colour in self._colours
setColour_recognized(n) == InTuple(n, _colours)

\* command in self._commands
sendCommand_recognized(n) == InTuple(n, _commands)

\* a lookup that yields nothing for a missing key
LookupFault_silent == "None"

\* self._buttons[name] for a name that is no key of the dict
LookupFault == "KeyError"

\* the list object handed to transmitCode, after transmitCode has run its
\* length check and code.extend(TERMINATOR): the dict entry is that object
ListAfterTransmit(c) == IF ValidLength(c) THEN Extend(c) ELSE c

\* self.toy.transmitCode(self._buttons[n]) in the method `who`
toy_transmitCode(who, n) ==
    /\ caller' = who
    /\ name' = n
    /\ IF n \in DOMAIN buttons
       THEN /\ transmitCode_call(buttons[n])
            /\ buttons' = [buttons EXCEPT ![n] = ListAfterTransmit(@)]
       ELSE /\ NoCall(who, LookupFault)
            /\ buttons' = buttons
    /\ UNCHANGED <<file, recLog, captured>>

\* the method `who` returns None at once
ReturnNone(who, n) ==
    /\ caller' = who
    /\ name' = n
    /\ NoCall(who, "None")
    /\ UNCHANGED <<buttons, file, recLog, captured>>

\* LightController.setColour(colour), without the caller's own state
setColour_call(n) ==
    /\ pc = "idle"
    /\ IF setColour_recognized(n)
       THEN toy_transmitCode("setColour", n)
       ELSE ReturnNone("setColour", n)

\* LightController.setColour(colour)
setColour(n) == setColour_call(n) /\ UNCHANGED pollVars

\* LightController.sendCommand(command)
sendCommand(n) ==
    /\ pc = "idle"
    /\ IF sendCommand_recognized(n)
       THEN toy_transmitCode("sendCommand", n)
       ELSE ReturnNone("sendCommand", n)
    /\ UNCHANGED pollVars

\* LightController.lightsOn()
lightsOn ==
    /\ pc = "idle"
    /\ toy_transmitCode("lightsOn", "on")
    /\ UNCHANGED pollVars

\* LightController.lightsOff()
lightsOff ==
    /\ pc = "idle"
    /\ toy_transmitCode("lightsOff", "off")
    /\ UNCHANGED pollVars

\* LightController.getVersion()
LightController_getVersion ==
    /\ getVersion_call
    /\ caller' = "getVersion"
    /\ name' = ""
    /\ UNCHANGED <<buttons, file, recLog, captured, pollVars>>

\* LightController.getSettings()
LightController_getSettings ==
    /\ getSettings_call
    /\ caller' = "getSettings"
    /\ name' = ""
    /\ UNCHANGED <<buttons, file, recLog, captured, pollVars>>

\* recordButton's first statement, self.toy.reset(), for the button n
recordButton_start(who, n) ==
    /\ pc = "idle"
    /\ op' = who
    /\ caller' = who
    /\ name' = n
    /\ recLog' = <<>>
    /\ faultAt' = <<>>
    /\ ioDone' = FALSE
    /\ arg' = <<>>
    /\ code' = <<>>
    /\ TxClear
    /\ GvClear
    /\ RsClear
    /\ SetCtl(Call_reset(Fresh, "rb_ssm"))
    /\ RptClear
    /\ UNCHANGED <<mode, protocolVersion, isOpen, buttons, file,
                   captured, pollVars>>

\* LightController.recordButton(button), dump=True
recordButton(n) == recordButton_start("recordButton", n)

\* LightController.recordButtons(): the first button of
\* sorted(self.buttonNames)
recordButtons == recordButton_start("recordButtons", Head(sorted(buttonNames)))

(* ------------------------------- the poller ---------------------------- *)

\* a poller that sets no colour for a finished build
getBuildStatus_quiet(r) == ""

\* BuildBotSession.getBuildStatus: the colour for the last build's results
getBuildStatus_colour(r) ==
    LET v == IF r.present THEN r.value ELSE 0
    IN IF v /= 0
       THEN IF r.value = 5 THEN "purple" ELSE "red"
       ELSE "green"

\* BuildBotSession.getStatus: the colour one pass of the loop sets, "" for
\* none
getStatus_colour(p) ==
    IF p.state = "idle" THEN getBuildStatus_colour(p.results)
    ELSE IF p.state = "building" THEN "orange"
    ELSE ""

\* states the build server reports, and results of the last build
PollStates == {"idle", "building", "offline"}

PollResults ==
    {NoResults} \cup {[present |-> TRUE, value |-> v] : v \in {0, 2, 5}}

\* what one pass of the loop gets from the server: the results are asked
\* for only when the state is 'idle'
Polls ==
    {[state |-> "idle", results |-> r] : r \in PollResults}
        \cup {[state |-> st, results |-> NoResults] :
                 st \in PollStates \ {"idle"}}

\* the loop of getStatus is running: no call made of it has raised
PollerAlive == result \in {"", "None", "False", "True"}

\* BuildBotSession.__init__: self.lightController.lightsOn()
BuildBotSession_lightsOn ==
    /\ pc = "idle"
    /\ session = "lightsOn"
    /\ toy_transmitCode("lightsOn", "on")
    /\ session' = "setColour"
    /\ UNCHANGED <<poll, prevPoll, colourCall>>

\* BuildBotSession.__init__: self.lightController.setColour('white'),
\* reached when lightsOn() has not raised
BuildBotSession_setColour ==
    /\ pc = "idle"
    /\ session = "setColour"
    /\ PollerAlive
    /\ setColour_call("white")
    /\ session' = "polling"
    /\ UNCHANGED <<poll, prevPoll, colourCall>>

\* BuildBotSession.getStatus: one pass of the while loop, reached when
\* __init__ has returned and no earlier pass has raised
getStatus ==
    /\ pc = "idle"
    /\ session = "polling"
    /\ PollerAlive
    /\ session' = session
    /\ \E p \in Polls :
          /\ prevPoll' = poll
          /\ poll' = p
          /\ colourCall' = getStatus_colour(p)
          /\ IF getStatus_colour(p) /= ""
             THEN setColour_call(getStatus_colour(p))
             ELSE /\ NoCall("getStatus", "None")
                  /\ UNCHANGED ctlrVars

\* the session object can go away: __init__ has raised, or it has returned
\* (the loop of getStatus ends by an exception, of a setColour call or of
\* the request to the server, and the program ends)
SessionEnds ==
    \/ session = "polling"
    \/ session = "setColour" /\ ~PollerAlive

\* BuildBotSession.__del__: self.lightController.lightsOff()
BuildBotSession_del ==
    /\ pc = "idle"
    /\ SessionEnds
    /\ toy_transmitCode("lightsOff", "off")
    /\ session' = "deleted"
    /\ UNCHANGED <<poll, prevPoll, colourCall>>

\* IR_Toy.__del__, run when the session has been deleted and its
\* controller and driver are freed with it: self.close()
IR_Toy_del ==
    /\ session = "deleted"
    /\ close_call
    /\ caller' = "__del__"
    /\ name' = ""
    /\ session' = "freed"
    /\ UNCHANGED <<buttons, file, recLog, captured, poll, prevPoll,
                   colourCall>>

(* ------------------------------- transport ----------------------------- *)

\* the pcs at which the driver is inside a read or write of the connection
IOLabels ==
    {"stm_handshake", "stm_bytecount", "stm_notify", "stm_transmit",
     "stm_read", "tc_write", "tc_credit", "tc_report", "reset_1", "reset_2",
     "ssm_S", "ssm_read", "gv_write", "gv_read", "rs_read",
     "gs_write", "gs_read", "cmd_write", "raw_read", "fr_write", "fr_read"}

\* the read or write at pc raises (serial.SerialException)
TransportFault ==
    /\ pc \in IOLabels
    /\ faultAt' = Append(faultAt, [at |-> pc, in |-> region])
    /\ ioDone' = TRUE
    /\ SetCtl(Raise(Ctl, "SerialException"))
    /\ UNCHANGED <<op, txVars, devVars, gvVars, rsVars, mode, protocolVersion>>
    /\ UNCHANGED <<rptVars, isOpen, appVars>>

(* ----------------------------- specification --------------------------- *)

Next ==
    \/ \E c \in SeqsUpTo(CodeBytes, MaxCodeLen) : transmitCode(c)
    \/ enableTX_Handshake
    \/ enableTX_ByteCount
    \/ enableTX_NotifyOnComplete
    \/ enableTransmitMode_write
    \/ enableTransmitMode_read
    \/ transmitCode_write
    \/ transmitCode_credit
    \/ transmitCode_report
    \/ reset_terminator
    \/ reset_commands
    \/ setSamplingMode_write
    \/ setSamplingMode_read
    \/ getVersion
    \/ getVersion_write
    \/ getVersion_read
    \/ receiveSignal
    \/ receiveSignal_read
    \/ getSettings
    \/ getSettings_write
    \/ getSettings_read
    \/ getFrequencyReport
    \/ getFrequencyReport_write
    \/ getFrequencyReport_read
    \/ setLED_On
    \/ setLED_Off
    \/ setMuteLED_On
    \/ setMuteLED_Off
    \/ \E prescale \in SampleTimers : setSampleTimer(prescale)
    \/ \E pr2 \in PR2Values, dutyCycle \in DutyCycles :
          setTX_Modulation(pr2, dutyCycle)
    \/ enableTX_direct
    \/ \E data \in WrittenArrays : writeArray(data)
    \/ write(<<1>>)
    \/ command_write
    \/ read
    \/ read_read
    \/ reset
    \/ setSamplingMode
    \/ setTransmitMode
    \/ enableTransmitMode
    \/ flush
    \/ close
    \/ TransportFault

Spec == Init /\ [][Next]_vars

(* ------------------ specification: the LightController ----------------- *)

\* a button file with a code that lacks the sentinel, a code with a value
\* that is no byte, and a code that ends in the sentinel
ControllerFile ==
    JsonFile("white" :> <<1, 1>> @@ "flash" :> <<1, 300>>
                 @@ "on" :> <<255, 255>>)

ControllerFiles == {MissingFile, ControllerFile}

\* names handed to setColour and sendCommand: a colour in the file, a
\* colour not in the file, a command, a button that is neither, and a
\* name that is no button
CallNames == {"white", "red", "flash", "on", "notacolour"}

\* LightController.__init__ on the button file f: the dict is empty, then
\* loadButtons
LightController_init(f) ==
    /\ caller = "__init__"
    /\ name = ""
    /\ file = f
    /\ buttons = loadButtons_buttons(f, EmptyMap)
    /\ recLog = <<>>
    /\ captured = {}

InitController ==
    /\ IR_Toy_init
    /\ \E f \in ControllerFiles : LightController_init(f)
    /\ NoPoller

\* the reads and writes of the driver, each completing
DriverSteps ==
    \/ enableTX_Handshake
    \/ enableTX_ByteCount
    \/ enableTX_NotifyOnComplete
    \/ enableTransmitMode_write
    \/ enableTransmitMode_read
    \/ transmitCode_write
    \/ transmitCode_credit
    \/ transmitCode_report
    \/ reset_terminator
    \/ reset_commands
    \/ setSamplingMode_write
    \/ setSamplingMode_read

NextController ==
    \/ \E n \in CallNames : setColour(n)
    \/ \E n \in CallNames : sendCommand(n)
    \/ lightsOn
    \/ lightsOff
    \/ LightController_getVersion
    \/ LightController_getSettings
    \/ loadButtons
    \/ dumpButtons
    \/ DriverSteps
    \/ getVersion_write
    \/ getVersion_read
    \/ getSettings_write
    \/ getSettings_read
    \/ TransportFault

SpecController == InitController /\ [][NextController]_vars

(* ---------------------- specification: recording ----------------------- *)

\* the button recorded alone, and transmitted later
RecordNames == {"red"}

InitRecord ==
    /\ IR_Toy_init
    /\ LightController_init(MissingFile)
    /\ NoPoller

NextRecord ==
    \/ \E n \in RecordNames : recordButton(n)
    \/ \E n \in RecordNames : setColour(n)
    \/ loadButtons
    \/ dumpButtons
    \/ DriverSteps
    \/ receiveSignal_read
    \/ TransportFault

SpecRecord == InitRecord /\ [][NextRecord]_vars

(* ------------------ specification: recording all buttons --------------- *)

NextRecordAll ==
    \/ recordButtons
    \/ dumpButtons
    \/ reset_terminator
    \/ reset_commands
    \/ setSamplingMode_write
    \/ setSamplingMode_read
    \/ receiveSignal_read
    \/ TransportFault

SpecRecordAll == InitRecord /\ [][NextRecordAll]_vars

(* ------------- specification: transmitCode on a sound link ------------- *)

\* every read and write completes: no TransportFault
NextTransmit ==
    \/ \E c \in SeqsUpTo(CodeBytes, MaxCodeLen) : transmitCode(c)
    \/ DriverSteps

\* a read or write that has been started completes
SpecTransmit == Init /\ [][NextTransmit]_vars /\ WF_vars(DriverSteps)

(* ------------------------ specification: the poller -------------------- *)

\* the button file of the poller: the five colours it sets and 'on', each a
\* code that ends in the sentinel
PollerFile ==
    JsonFile("on" :> <<255, 255>> @@ "white" :> <<255, 255>>
                 @@ "red" :> <<1, 1, 255, 255>> @@ "orange" :> <<255, 255>>
                 @@ "green" :> <<255, 255>> @@ "purple" :> <<255, 255>>)

\* the same file with a code for 'off', which lacks the sentinel
PollerFileOff == JsonFile(PollerFile.map @@ "off" :> <<1, 1>>)

PollerFiles == {PollerFile, PollerFileOff}

\* BuildBotSession.__init__ has built the controller on the poller's file
\* and is about to call lightsOn(); no poll has been made
InitPoller ==
    /\ IR_Toy_init
    /\ \E f \in PollerFiles : LightController_init(f)
    /\ poll = NoPoll
    /\ prevPoll = NoPoll
    /\ colourCall = ""
    /\ session = "lightsOn"

NextPoller ==
    \/ BuildBotSession_lightsOn
    \/ BuildBotSession_setColour
    \/ getStatus
    \/ BuildBotSession_del
    \/ IR_Toy_del
    \/ DriverSteps
    \/ TransportFault

SpecPoller == InitPoller /\ [][NextPoller]_vars

(* ------------------------------- properties ---------------------------- *)

\* a code of even length, at least 2: what transmitCode accepts
EvenCode(c) == Len(c) >= 2 /\ Len(c) % 2 = 0

\* a code followed by the sentinel 0xFF 0xFF unless it ends with it
WithSentinel(c) ==
    IF Len(c) >= 2 /\ c[Len(c) - 1] = 255 /\ c[Len(c)] = 255
    THEN c ELSE c \o <<255, 255>>

\* an event is in the trace of the current call
Traced(e) == \E i \in 1..Len(trace) : trace[i] = e

\* a call of transmitCode has returned to its caller
TxReturned == op = "transmitCode" /\ pc = "idle"

\* the send loop of the current transmitCode was left by its loop test
LoopCompleted ==
    /\ op = "transmitCode"
    /\ \/ pc = "tc_report"
       \/ Traced("completionReport")
       \/ faultAt /= <<>> /\ faultAt[1].at = "tc_report"

\* the current transmitCode read a completion report whose status is not 'C'
StatusNotC ==
    /\ op = "transmitCode"
    /\ complete.type = "bytes"
    /\ complete.val /= <<67>>

\* C1 (as claimed): every call of transmitCode with a code that passes the
\* length check has called setSamplingMode by the time it returns, whatever
\* the outcome, faults while entering Transmit mode included.
C1_SamplingModeOnEveryReturn ==
    (TxReturned /\ EvenCode(arg)) => Traced("setSamplingMode")

\* C2: every chunk transmitCode writes is no longer than the credit the
\* device advertised last before that write, for all credits (0 included)
\* and all counts a write may report.
C2_ChunkWithinCredit ==
    op = "transmitCode" => Len(chunk) <= chunkCredit

\* C2 witness: a chunk cut down to a credit of 1 while at least two more
\* bytes of the code are still to be sent.
C2_Witness ==
    /\ op = "transmitCode"
    /\ pc = "tc_credit"
    /\ chunkCredit = 1
    /\ Len(chunk) = 1
    /\ Len(code) - Len(wire) >= 2

\* C3: idx always counts exactly the bytes the device accepted, which are
\* the first idx bytes of the input code with the sentinel appended if it
\* was absent (a short write is resumed at the first unsent byte); and when
\* the send loop is left without a fault the device has accepted all of
\* that code, each byte once, in order, ending in the sentinel.
C3_StreamIsCodeWithSentinel ==
    (op = "transmitCode" /\ EvenCode(arg)) =>
        /\ idx = Len(wire)
        /\ Len(wire) <= Len(WithSentinel(arg))
        /\ wire = SubSeq(WithSentinel(arg), 1, Len(wire))
        /\ LoopCompleted =>
              /\ wire = WithSentinel(arg)
              /\ LastTwo(wire) = <<255, 255>>

\* C3 witness: a loop that completed after a short write, for a code that
\* came without the sentinel.
C3_Witness ==
    /\ LoopCompleted
    /\ resumed
    /\ Len(arg) = 2
    /\ Len(wire) = 4

\* C4: a call of transmitCode with a code of length below 2 or of odd length
\* ends at once in ValueError, with no read or write attempted, and with the
\* device mode and the code as they were.
C4_InvalidRejectedBeforeIO ==
    [][(pc = "idle" /\ op' = "transmitCode" /\ ~EvenCode(arg'))
         => /\ pc' = "idle"
            /\ result' = "ValueError"
            /\ ioDone' = FALSE
            /\ trace' = <<>>
            /\ code' = arg'
            /\ mode' = mode]_vars

\* C4 witness: a code of length 3 rejected while the device was left in
\* Transmit mode by an earlier call.
C4_Witness ==
    /\ op = "transmitCode"
    /\ result = "ValueError"
    /\ Len(arg) = 3
    /\ code = arg
    /\ ~ioDone
    /\ mode = "Transmit"

\* C5 (as claimed): when a read or write of the send loop or the read of the
\* completion report raises (and nothing raises after it), transmitCode logs,
\* resets before it re-enters Sampling mode, and returns False.
C5_FaultReturnsFalse ==
    (/\ TxReturned
     /\ Len(faultAt) = 1
     /\ faultAt[1].at \in {"tc_write", "tc_credit", "tc_report"})
    => /\ trace[Len(trace) - 3] = "logging.error"
       /\ trace[Len(trace) - 2] = "reset"
       /\ trace[Len(trace) - 1] = "setSamplingMode"
       /\ result = "False"

\* C6: when the completion report's status is not 'C', reset is called right
\* after the report is read and before setSamplingMode is; and when no read
\* or write of the call raises, transmitCode returns False.
C6_StatusNotCResetsAndFails ==
    StatusNotC =>
        /\ Len(trace) >= 3
        /\ trace[2] = "completionReport"
        /\ trace[3] = "reset"
        /\ \A i \in 1..Len(trace) : trace[i] = "setSamplingMode" => i > 3
        /\ (pc = "idle" /\ faultAt = <<>>) =>
              /\ result = "False"
              /\ trace = <<"setTransmitMode", "completionReport", "reset",
                           "setSamplingMode", "reset">>
              /\ mode = "Sampling"

\* C6 witness: a transmit that returned after a report with status 'F'.
C6_Witness ==
    /\ TxReturned
    /\ complete = PyBytes(<<70>>)
    /\ faultAt = <<>>
    /\ result = "False"
    /\ wire = code

\* C7 (as claimed): when all bytes were sent, nothing raised and the status
\* is 'C', transmitCode returns True and calls reset only as part of
\* setSamplingMode.
C7_StatusCReturnsTrue ==
    (TxReturned /\ faultAt = <<>> /\ complete = PyBytes(<<67>>))
    => /\ result = "True"
       /\ trace = <<"setTransmitMode", "completionReport",
                    "setSamplingMode", "reset">>

\* C8 (as claimed): for a code that passes the length check, transmitCode
\* always hands its caller a boolean, whatever raises at whatever step.
C8_AlwaysBoolean ==
    (TxReturned /\ EvenCode(arg)) => result \in {"True", "False"}

\* C9: getVersion calls setSamplingMode after its body on every path (the
\* answer parsed, int() raising, the reset, the write or the read raising),
\* and the device is in Sampling mode on return unless a read or write of
\* that setSamplingMode itself raised.
C9_GetVersionRestoresSampling ==
    (op = "getVersion" /\ pc = "idle") =>
        /\ trace = <<"reset", "setSamplingMode", "reset">>
        /\ (\A i \in 1..Len(faultAt) : faultAt[i].in /= "finally")
              => mode = "Sampling"

\* C9 witness: getVersion returned after the write of 'v' raised, with the
\* device back in Sampling mode.
C9_Witness ==
    /\ op = "getVersion"
    /\ pc = "idle"
    /\ faultAt = <<[at |-> "gv_write", in |-> "try"]>>
    /\ result = "SerialException"
    /\ mode = "Sampling"

\* C10 (as claimed): whatever the device sends, the list receiveSignal
\* returns ends with 0xFF 0xFF and has even length.
C10_SignalEvenAndTerminated ==
    (op = "receiveSignal" /\ result = "list") =>
        /\ Len(irCode) >= 2
        /\ irCode[Len(irCode) - 1] = 255
        /\ irCode[Len(irCode)] = 255
        /\ Len(irCode) % 2 = 0

(* --------------------------------- C16 --------------------------------- *)

\* the device's answer to 'v' has been read
VersionRead == op = "getVersion" /\ buffer.type = "bytes"

\* C16 (as claimed): for every 4-byte response b0 b1 b2 b3, getVersion
\* yields the hardware identifier b0 b1 and the revision b2*256 + b3.
C16_RevisionBigEndian ==
    VersionRead =>
        version = <<PyBytes(SubSeq(buffer.val, 1, 2)),
                    buffer.val[3] * 256 + buffer.val[4]>>

(* ------------------------------ C11 .. C14 ----------------------------- *)

\* the step is a call of setColour or sendCommand
NameCalled == pc = "idle" /\ caller' \in {"setColour", "sendCommand"}

\* the set of names the called method recognizes
RecognizedSet == IF caller' = "setColour" THEN _colours ELSE _commands

\* the call returns at once and nothing was read or written
ReturnedWithoutIO ==
    /\ pc' = "idle"
    /\ ~ioDone'
    /\ out' = <<>>
    /\ wire' = <<>>
    /\ mode' = mode

\* C11: setColour(name) hands exactly ButtonMap[name] to transmitCode when
\* name is one of the 16 colours, and returns None with no read or write
\* for every other name (commands, 'on', names that are no button);
\* sendCommand does the same against the 6 commands.
C11_HandsEntryOrNoIO ==
    [][NameCalled =>
          IF InTuple(name', RecognizedSet)
          THEN name' \in DOMAIN buttons =>
                  /\ op' = "transmitCode"
                  /\ arg' = buttons[name']
          ELSE /\ ReturnedWithoutIO
               /\ result' = "None"]_vars

\* C11 witness: setColour('white') has transmitted the entry [1, 1] of the
\* file, sentinel appended, to the end.
C11_Witness ==
    /\ caller = "setColour"
    /\ name = "white"
    /\ op = "transmitCode"
    /\ pc = "idle"
    /\ arg = <<1, 1>>
    /\ wire = <<1, 1, 255, 255>>

\* C12: setColour or sendCommand with a recognized name that is no key of
\* ButtonMap ends in a KeyError, which is not the None of an unrecognized
\* name, with no read or write and the device mode as it was.
C12_LookupFaultNoIO ==
    [][(NameCalled /\ InTuple(name', RecognizedSet)
           /\ name' \notin DOMAIN buttons) =>
          /\ result' = "KeyError"
          /\ ReturnedWithoutIO]_vars

\* C12 witness: setColour('red') on a map without 'red' has raised KeyError
\* before any read or write.
C12_Witness ==
    /\ caller = "setColour"
    /\ name = "red"
    /\ pc = "idle"
    /\ result = "KeyError"
    /\ ~ioDone

\* C13 (as claimed): without a recording, and while the button file is the
\* one that was loaded (no dumpButtons call has rewritten it), every
\* ButtonMap entry is the value loaded from the file, whatever setColour,
\* sendCommand, lightsOn, lightsOff, getVersion and getSettings calls were
\* made.
C13_ButtonMapAsLoaded ==
    file.kind /= "empty" => buttons = loadButtons_buttons(file, EmptyMap)

\* C14 (as claimed): after loadButtons no ButtonMap entry holds a value
\* outside 0..255, and no such value is handed to transmitCode.
C14_NoBadValueLoaded ==
    /\ caller = "loadButtons" =>
          \A n \in DOMAIN buttons : ByteArrayOk(buttons[n])
    /\ op = "transmitCode" => ByteArrayOk(arg)

(* --------------------------------- C17 --------------------------------- *)

\* the call that has returned was a transmitCode that ended in a fault
\* raised while it entered Transmit mode, and in no other fault
FaultedEnteringTransmit ==
    /\ pc = "idle"
    /\ op = "transmitCode"
    /\ faultAt /= <<>>
    /\ \A i \in 1..Len(faultAt) : faultAt[i].in = "pre"

\* C17 (as claimed, for a call that follows a faulted one): when
\* transmitCode starts entering Transmit mode (is about to write the
\* handshake opcode) after a LightController call that ended in a fault,
\* the device is in Sampling mode.
C17_SamplingWhenTransmitStarts ==
    [][(FaultedEnteringTransmit /\ pc' = "stm_handshake") =>
          mode = "Sampling"]_vars

(* --------------------------------- C15 --------------------------------- *)

\* recordButtons has returned, and no read or write of it raised
RecordedAll == caller = "recordButtons" /\ pc = "idle" /\ faultAt = <<>>

\* C15 (as claimed): recordButtons records each of the 24 button names
\* once, in lexical order, and then writes ButtonMap to the button file,
\* once, after the last recording.
C15_AllRecordedThenFileWritten ==
    RecordedAll =>
        /\ recLog = sorted(buttonNames) \o <<"dumpButtons">>
        /\ file = JsonFile(buttons)
        /\ result = "None"

(* --------------------------------- C18 --------------------------------- *)

\* C18 (as claimed): on a link where every read and write completes, a
\* transmitCode that has reached its send loop returns, whatever credits
\* the device advertises and whatever counts the writes report.
C18_TransmitReturns == (op = "transmitCode" /\ pc = "tc_write") ~> pc = "idle"

(* --------------------------------- C19 --------------------------------- *)

\* C19 (as claimed): a transmit of a ButtonMap entry that recordButton
\* stored never ends in the ValueError of the length check.
C19_RecordedCodeAccepted ==
    (caller = "setColour" /\ op = "transmitCode" /\ name \in captured) =>
        result /= "ValueError"

(* --------------------------------- C20 --------------------------------- *)

\* C20 (as claimed): a poll whose status equals the status of the previous
\* poll makes no setColour call and starts no transmission.
C20_SetColourOnlyOnChange ==
    [][(pc = "idle" /\ session = "polling" /\ session' = "polling"
           /\ poll /= NoPoll /\ poll' = poll) =>
          /\ colourCall' = ""
          /\ pc' = "idle"]_vars

\* the colour that belongs to what a poll got from the server
StatusColour(p) ==
    IF p.state = "building" THEN "orange"
    ELSE IF ~p.results.present \/ p.results.value = 0 THEN "green"
    ELSE IF p.results.value = 5 THEN "purple"
    ELSE "red"

\* C20 (amended): every poll whose state is 'idle' or 'building' calls
\* setColour once, with the colour of the status it got (building: orange;
\* idle: green for results absent or 0, purple for 5, red otherwise),
\* whether or not the status differs from the previous poll's; a poll with
\* any other state calls nothing.
C20_SetColourOnEveryPoll ==
    [][(pc = "idle" /\ session = "polling" /\ session' = "polling") =>
          IF poll'.state \in {"idle", "building"}
          THEN /\ colourCall' = StatusColour(poll')
               /\ caller' = "setColour"
               /\ name' = StatusColour(poll')
               /\ op' = "transmitCode"
               /\ arg' = buttons[name']
          ELSE /\ colourCall' = ""
               /\ pc' = "idle"
               /\ ~ioDone']_vars

\* C20 witness: two polls in a row got 'idle' with results 0, and the
\* second one has called setColour('green') and transmitted the code.
C20_Witness ==
    /\ poll = [state |-> "idle", results |-> [present |-> TRUE, value |-> 0]]
    /\ prevPoll = poll
    /\ colourCall = "green"
    /\ caller = "setColour"
    /\ op = "transmitCode"
    /\ pc = "idle"
    /\ wire = <<255, 255>>

====
